---- MODULE Spec2Model ----
(***************************************************************************)
(* GitHubValidator (validate_github_limits_ver2.py / _ver3.py): one audit  *)
(* of a repository tree against GitHub's size and count limits, with the   *)
(* optional relocation of oversized files to a backup tree.                *)
(*                                                                         *)
(* Sizes are whole MiB (st_size / 2^20 is exact in a float, so the order   *)
(* of the comparisons is that of the byte counts); the tree total is kept  *)
(* in MiB and compared with the GiB limits times 1024.                     *)
(* A name is a sequence of characters, a relative path a sequence of       *)
(* names, so that str(path).startswith(...) is computed on characters.     *)
(***************************************************************************)
EXTENDS Integers, Sequences, FiniteSets, TLC

\* ---- limits (class GitHubLimits / module constants) ----
MAX_FILESIZE_MB == 100
WARNING_FILESIZE_MB == 50
MAX_FILES_PER_DIR == 1000
MAX_REPO_SIZE_GB == 100
WARNING_REPO_SIZE_GB == 5
MiBPerGiB == 1024

\* ---- bounds of the model ----
MaxRuns == 2
HugeFileMB == 60000
ClockNow == 7

\* ---- names and paths ----
n_src == <<"s", "r", "c">>
n_data == <<"d", "a", "t", "a">>
n_src2 == <<"s", "r", "c", "2">>
n_doc == <<"d", "o", "c">>
critical_dirs == <<n_src, n_data>>
repo_dir == <<"/", "r">>
backup_dir == <<"/", "b">>

Root == <<>>
D_src == <<n_src>>
D_src2 == <<n_src2>>
D_doc == <<n_doc>>
F_a == <<n_src, <<"a">>>>
F_b == <<n_src2, <<"b">>>>
F_c == <<n_doc, <<"c">>>>
P_root == <<<<"p">>>>
P_doc == <<n_doc, <<"p">>>>

Files == {F_a, F_b, F_c}
Pads == {P_root, P_doc}
Slots == Files \cup Pads
SubDirs == {D_src, D_src2, D_doc}
Dirs == {Root} \cup SubDirs

\* the order in which the directory walk yields the paths of the tree
Walk == <<D_doc, F_c, P_doc, P_root, D_src, F_a, D_src2, F_b>>

NoEntry == [kind |-> "absent", size |-> 0, atime |-> 0, mtime |-> 0, data |-> "none", target |-> "none", n |-> 0]
RegFile(s, a, m, d) == [kind |-> "file", size |-> s, atime |-> a, mtime |-> m, data |-> d, target |-> "none", n |-> 1]
\* a symbolic link present before the audit, to a file outside the tree
ExtTarget == RegFile(MAX_FILESIZE_MB + 1, 1, 1, "ext")
ExtLink == [kind |-> "link", size |-> 0, atime |-> 1, mtime |-> 1, data |-> "none", target |-> "ext", n |-> 1]
PadFiles(k) == [kind |-> "file", size |-> 0, atime |-> 1, mtime |-> 1, data |-> "pad", target |-> "none", n |-> k]

VARIABLES ver, auto_move, fs, bk, pc, phase, todo, cur, cap, issues, errors,
          total_files, total_size_mb, handled, failStep, fs0, runs, prev

vars == <<ver, auto_move, fs, bk, pc, phase, todo, cur, cap, issues, errors,
          total_files, total_size_mb, handled, failStep, fs0, runs, prev>>

\* ---- pathlib ----
IsPrefix(p, s) == Len(p) <= Len(s) /\ SubSeq(s, 1, Len(p)) = p

RECURSIVE JoinPath(_, _)
JoinPath(base, rel) ==
    IF rel = <<>> THEN base
    ELSE JoinPath(base \o <<"/">> \o Head(rel), Tail(rel))

PathStr(rel) == JoinPath(repo_dir, rel)

Parent(p) == SubSeq(p, 1, Len(p) - 1)

RECURSIVE SelectUnder(_, _)
SelectUnder(w, d) ==
    IF w = <<>> THEN <<>>
    ELSE IF Len(Head(w)) > Len(d) /\ IsPrefix(d, Head(w))
         THEN <<Head(w)>> \o SelectUnder(Tail(w), d)
         ELSE SelectUnder(Tail(w), d)

\* Path.rglob('*'): every path strictly below d, d itself excluded
Rglob(d) == SelectUnder(Walk, d)

DirExists(d) == d \in Dirs

\* Path.stat(): follows a symbolic link
Stat(f, b, p) ==
    IF f[p].kind = "link"
    THEN (IF f[p].target = "ext" THEN ExtTarget ELSE b[p])
    ELSE f[p]

IsFile(f, b, p) == p \in Slots /\ Stat(f, b, p).kind = "file"
IsSymlink(f, p) == p \in Slots /\ f[p].kind = "link"
IsDir(p) == p \in Dirs

RECURSIVE SumN(_, _)
SumN(f, S) ==
    IF S = {} THEN 0
    ELSE LET p == CHOOSE x \in S : TRUE IN f[p].n + SumN(f, S \ {p})

\* len(list(path.glob('*'))): the immediate children of directory d
GlobCount(f, d) ==
    SumN(f, {p \in Slots : Parent(p) = d /\ f[p].kind # "absent"})
    + Cardinality({s \in SubDirs : Parent(s) = d})


\* ---- the run's ledger (self.issues) ----
Issue(t, p, v) == [type |-> t, path |-> p, val |-> v]

\* mutant of Classify: the warning threshold is tested first
Classify_WarnFirst(size_mb) ==
    IF size_mb > WARNING_FILESIZE_MB THEN "WARNING"
    ELSE IF size_mb > MAX_FILESIZE_MB THEN "ERROR"
    ELSE "none"

\* mutant of Classify: the max threshold is inclusive
Classify_MaxInclusive(size_mb) ==
    IF size_mb >= MAX_FILESIZE_MB THEN "ERROR"
    ELSE IF size_mb > WARNING_FILESIZE_MB THEN "WARNING"
    ELSE "none"

\* _handle_file_size: the branch taken for a measured size
Classify(size_mb) ==
    IF size_mb > MAX_FILESIZE_MB THEN "ERROR"
    ELSE IF size_mb > WARNING_FILESIZE_MB THEN "WARNING"
    ELSE "none"

\* _handle_file_size: the message appended to self.issues
HandleIssues(iss, path, size_mb) ==
    IF Classify(size_mb) = "none" THEN iss
    ELSE Append(iss, Issue(Classify(size_mb), path, size_mb))

\* mutant of CallsMove: the auto_move flag is not consulted
CallsMove_IgnoresFlag(am, size_mb) == Classify(size_mb) = "ERROR"

\* _handle_file_size: whether move_large_file is called
CallsMove(am, size_mb) == Classify(size_mb) = "ERROR" /\ am

\* ver3: any(str(path).startswith(str(self.repo_dir / d)) for d in critical_dirs)
InCritical(p) ==
    \E i \in 1..Len(critical_dirs) :
        IsPrefix(PathStr(<<critical_dirs[i]>>), PathStr(p))

\* the test guarding one iteration of the scan loops
Eligible(v, ph, f, b, p) ==
    /\ IsFile(f, b, p)
    /\ ~IsSymlink(f, p)
    /\ (v = 3 /\ ph = 2) => ~InCritical(p)

RECURSIVE SkipIneligible(_, _, _, _, _)
SkipIneligible(v, ph, f, b, w) ==
    IF w = <<>> THEN <<>>
    ELSE IF Eligible(v, ph, f, b, Head(w)) THEN w
         ELSE SkipIneligible(v, ph, f, b, Tail(w))

RECURSIVE CriticalWalk(_)
CriticalWalk(ds) ==
    IF ds = <<>> THEN <<>>
    ELSE (IF DirExists(<<Head(ds)>>) THEN Rglob(<<Head(ds)>>) ELSE <<>>)
         \o CriticalWalk(Tail(ds))

FirstWalk(v) == IF v = 3 THEN CriticalWalk(critical_dirs) ELSE Rglob(Root)
FirstPhase(v) == IF v = 3 THEN 1 ELSE 2

NoCur == <<>>
NoCap == [atime |-> 0, mtime |-> 0, size |-> 0]
NoPrev == [issues |-> <<>>, total_files |-> 0, completed |-> FALSE]

\* ---- initial trees ----
FileSizes == {WARNING_FILESIZE_MB, WARNING_FILESIZE_MB + 1, MAX_FILESIZE_MB,
              MAX_FILESIZE_MB + 1, HugeFileMB}
\* src/a: absent, a link, or a file of any of the sizes
OptsA == {NoEntry, ExtLink} \cup {RegFile(s, 1, 2, "A") : s \in FileSizes}
\* src2/b: absent or a file
OptsB == {NoEntry} \cup {RegFile(s, 1, 2, "B") : s \in {WARNING_FILESIZE_MB + 1, MAX_FILESIZE_MB + 1, HugeFileMB}}
\* doc/c: a link or a file
OptsC == {ExtLink} \cup {RegFile(s, 1, 2, "C") : s \in {WARNING_FILESIZE_MB, MAX_FILESIZE_MB, MAX_FILESIZE_MB + 1, HugeFileMB}}
\* further empty files, so that a directory has MAX_FILES_PER_DIR children or one more:
\* the root has the three subdirectories, doc has doc/c
RootPads == {NoEntry, PadFiles(MAX_FILES_PER_DIR - 3), PadFiles(MAX_FILES_PER_DIR - 2)}
DocPads == {NoEntry, PadFiles(MAX_FILES_PER_DIR - 1), PadFiles(MAX_FILES_PER_DIR)}
Trees ==
    {(F_a :> a) @@ (F_b :> b) @@ (F_c :> c) @@ (P_root :> pr) @@ (P_doc :> pd) :
        a \in OptsA, b \in OptsB, c \in OptsC, pr \in RootPads, pd \in DocPads}

Init ==
    /\ ver \in {2, 3}
    /\ auto_move \in BOOLEAN
    /\ fs \in Trees
    /\ fs0 = fs
    /\ bk = [p \in Slots |-> NoEntry]
    /\ pc = "files"
    /\ phase = FirstPhase(ver)
    /\ todo = FirstWalk(ver)
    /\ cur = NoCur
    /\ cap = NoCap
    /\ issues = <<>>
    /\ errors = <<>>
    /\ total_files = 0
    /\ total_size_mb = 0
    /\ handled = [p \in Slots |-> 0]
    /\ failStep = [p \in Slots |-> "none"]
    /\ runs = 1
    /\ prev = NoPrev


\* ---- system calls of move_large_file ----
\* os.utime(path, (atime, mtime)) on the object rec
SetTimes(rec, c) == [rec EXCEPT !.atime = c.atime, !.mtime = c.mtime]

\* stat = file_path.stat(); atime, mtime = stat.st_atime, stat.st_mtime
Capture(st) == [atime |-> st.atime, mtime |-> st.mtime, size |-> st.size]

\* mutant of MovedTo: the destination is left with a truncated copy
MovedTo_Truncated(rec, crossdev) == [rec EXCEPT !.data = "partial", !.size = 0]

\* shutil.move(file_path, backup_path): what is at the destination afterwards
MovedTo(rec, crossdev) == IF crossdev THEN [rec EXCEPT !.atime = ClockNow] ELSE rec

\* os.symlink(backup_path, file_path): the new link
NewLink == [kind |-> "link", size |-> 0, atime |-> ClockNow, mtime |-> ClockNow,
            data |-> "none", target |-> "bk", n |-> 1]

\* ---- check_file_sizes ----
\* one iteration of a scan loop that passes the is_file / is_symlink test:
\* the file is counted, measured and handed to _handle_file_size, which
\* (mkdir, stat) enters move_large_file for an oversized file
ScanFile ==
    /\ pc = "files"
    /\ LET rest == SkipIneligible(ver, phase, fs, bk, todo) IN
       /\ rest # <<>>
       /\ LET p == Head(rest)
              st == Stat(fs, bk, p)
          IN /\ total_files' = IF ver = 3 THEN total_files + fs[p].n ELSE total_files
             /\ handled' = [handled EXCEPT ![p] = @ + 1]
             /\ issues' = HandleIssues(issues, p, st.size)
             /\ todo' = Tail(rest)
             /\ IF CallsMove(auto_move, st.size)
                THEN /\ pc' = "move"
                     /\ cur' = p
                     /\ cap' = Capture(st)
                ELSE UNCHANGED <<pc, cur, cap>>
    /\ UNCHANGED <<ver, auto_move, fs, bk, phase, errors, total_size_mb, failStep, fs0, runs, prev>>

\* a scan loop runs out of paths: ver3 goes from the critical directories
\* to the whole repository, then check_file_sizes returns
EndPass ==
    /\ pc = "files"
    /\ SkipIneligible(ver, phase, fs, bk, todo) = <<>>
    /\ IF phase = 1
       THEN /\ phase' = 2
            /\ todo' = Rglob(Root)
            /\ pc' = pc
       ELSE /\ phase' = phase
            /\ todo' = <<>>
            /\ pc' = "dirs"
    /\ UNCHANGED <<ver, auto_move, fs, bk, cur, cap, issues, errors, total_files,
                   total_size_mb, handled, failStep, fs0, runs, prev>>

\* ---- move_large_file ----
\* shutil.move: a rename keeps the timestamps; a copy across devices reads
\* the source, so the copy's access time may be the time of the move
MoveStep ==
    /\ pc = "move"
    /\ \E crossdev \in BOOLEAN :
         bk' = [bk EXCEPT ![cur] = MovedTo(fs[cur], crossdev)]
    /\ fs' = [fs EXCEPT ![cur] = NoEntry]
    /\ pc' = "symlink"
    /\ UNCHANGED <<ver, auto_move, phase, todo, cur, cap, issues, errors, total_files,
                   total_size_mb, handled, failStep, fs0, runs, prev>>

\* os.symlink(backup_path, file_path): the link is born now
SymlinkStep ==
    /\ pc = "symlink"
    /\ fs' = [fs EXCEPT ![cur] = NewLink]
    /\ pc' = "utime_backup"
    /\ UNCHANGED <<ver, auto_move, bk, phase, todo, cur, cap, issues, errors, total_files,
                   total_size_mb, handled, failStep, fs0, runs, prev>>

\* os.utime(backup_path, (atime, mtime))
UtimeBackupStep ==
    /\ pc = "utime_backup"
    /\ bk' = [bk EXCEPT ![cur] = SetTimes(@, cap)]
    /\ pc' = "utime_link"
    /\ UNCHANGED <<ver, auto_move, fs, phase, todo, cur, cap, issues, errors, total_files,
                   total_size_mb, handled, failStep, fs0, runs, prev>>

\* mutant of UtimeLinkStep: os.utime follows the link, whose own times stay
UtimeLinkStep_FollowsLink ==
    /\ pc = "utime_link"
    /\ bk' = [bk EXCEPT ![cur] = SetTimes(@, cap)]
    /\ issues' = Append(issues, Issue("MOVED", cur, cap.size))
    /\ pc' = "files"
    /\ cur' = NoCur
    /\ cap' = NoCap
    /\ UNCHANGED <<ver, auto_move, fs, phase, todo, errors, total_files,
                   total_size_mb, handled, failStep, fs0, runs, prev>>

\* os.utime(file_path, (atime, mtime), follow_symlinks=False), then the
\* "Moved large file" message, and the scan loop goes on
UtimeLinkStep ==
    /\ pc = "utime_link"
    /\ fs' = [fs EXCEPT ![cur] = SetTimes(@, cap)]
    /\ issues' = Append(issues, Issue("MOVED", cur, cap.size))
    /\ pc' = "files"
    /\ cur' = NoCur
    /\ cap' = NoCap
    /\ UNCHANGED <<ver, auto_move, bk, phase, todo, errors, total_files,
                   total_size_mb, handled, failStep, fs0, runs, prev>>

RelocSteps == {"move", "symlink", "utime_backup", "utime_link"}

\* where control goes when check_file_sizes catches the exception:
\* ver3 re-raises out of validate, ver2 logs and returns
AfterScanError(v) == IF v = 3 THEN "aborted" ELSE "dirs"

\* a step of move_large_file raises: "Failed to move" is logged and the
\* exception re-raised into check_file_sizes, which logs it again.
\* A failed move across devices may leave a copy at the destination.
RelocFail ==
    /\ pc \in RelocSteps
    /\ errors' = errors \o <<[msg |-> "Failed to move", path |-> cur],
                             [msg |-> "File size check error", path |-> cur]>>
    /\ failStep' = [failStep EXCEPT ![cur] = pc]
    /\ IF pc = "move"
       THEN \E leftover \in BOOLEAN :
              bk' = IF leftover
                    THEN [bk EXCEPT ![cur] = [fs[cur] EXCEPT !.atime = ClockNow, !.mtime = ClockNow]]
                    ELSE bk
       ELSE bk' = bk
    /\ pc' = AfterScanError(ver)
    /\ cur' = NoCur
    /\ cap' = NoCap
    /\ todo' = <<>>
    /\ UNCHANGED <<ver, auto_move, fs, phase, issues, total_files,
                   total_size_mb, handled, fs0, runs, prev>>

\* ---- check_dir_file_counts ----
RECURSIVE DirWarnings(_, _)
DirWarnings(f, w) ==
    IF w = <<>> THEN <<>>
    ELSE (IF IsDir(Head(w)) /\ GlobCount(f, Head(w)) > MAX_FILES_PER_DIR
          THEN <<Issue("DIR_WARNING", Head(w), GlobCount(f, Head(w)))>>
          ELSE <<>>)
         \o DirWarnings(f, Tail(w))

CheckDirFileCounts ==
    /\ pc = "dirs"
    /\ issues' = issues \o DirWarnings(fs, Rglob(Root))
    /\ pc' = "size"
    /\ UNCHANGED <<ver, auto_move, fs, bk, phase, todo, cur, cap, errors, total_files,
                   total_size_mb, handled, failStep, fs0, runs, prev>>

\* ---- check_repo_size ----
RECURSIVE TotalSize(_, _, _)
TotalSize(f, b, w) ==
    IF w = <<>> THEN 0
    ELSE (IF IsFile(f, b, Head(w)) /\ ~IsSymlink(f, Head(w))
          THEN Stat(f, b, Head(w)).size * f[Head(w)].n
          ELSE 0)
         + TotalSize(f, b, Tail(w))

RepoIssues(total_mb) ==
    IF total_mb > MAX_REPO_SIZE_GB * MiBPerGiB
    THEN <<Issue("REPO_ERROR", Root, total_mb)>>
    ELSE IF total_mb > WARNING_REPO_SIZE_GB * MiBPerGiB
         THEN <<Issue("REPO_WARNING", Root, total_mb)>>
         ELSE <<>>

\* check_repo_size, then validate returns
CheckRepoSize ==
    /\ pc = "size"
    /\ total_size_mb' = TotalSize(fs, bk, Rglob(Root))
    /\ issues' = issues \o RepoIssues(TotalSize(fs, bk, Rglob(Root)))
    /\ pc' = "done"
    /\ UNCHANGED <<ver, auto_move, fs, bk, phase, todo, cur, cap, errors, total_files,
                   handled, failStep, fs0, runs, prev>>

\* ---- main, once more: a new validator on the tree as the last run left it ----
Rerun ==
    /\ pc \in {"done", "aborted"}
    /\ runs < MaxRuns
    /\ runs' = runs + 1
    /\ prev' = [issues |-> issues, total_files |-> total_files, completed |-> (pc = "done")]
    /\ fs0' = fs
    /\ pc' = "files"
    /\ phase' = FirstPhase(ver)
    /\ todo' = FirstWalk(ver)
    /\ cur' = NoCur
    /\ cap' = NoCap
    /\ issues' = <<>>
    /\ errors' = <<>>
    /\ total_files' = 0
    /\ total_size_mb' = 0
    /\ handled' = [p \in Slots |-> 0]
    /\ failStep' = [p \in Slots |-> "none"]
    /\ UNCHANGED <<ver, auto_move, fs, bk>>

Next ==
    \/ ScanFile
    \/ EndPass
    \/ MoveStep
    \/ SymlinkStep
    \/ UtimeBackupStep
    \/ UtimeLinkStep
    \/ RelocFail
    \/ CheckDirFileCounts
    \/ CheckRepoSize
    \/ Rerun

Spec == Init /\ [][Next]_vars


\* ---- properties ----
Count(iss, t, p) ==
    Cardinality({i \in 1..Len(iss) : iss[i].type = t /\ iss[i].path = p})

Logged(m, p) == \E i \in 1..Len(errors) : errors[i].msg = m /\ errors[i].path = p

Terminal == pc \in {"done", "aborted"}
NoFailure == \A p \in Slots : failStep[p] = "none"

\* the regular, non-symlink files of the tree the run started on
RegularAtStart == {p \in Slots : fs0[p].kind = "file"}

\* C1: every file handed to _handle_file_size, of size s, gets exactly one
\* outcome: s > max one ERROR record and no WARNING, warn < s <= max one
\* WARNING record and no ERROR, s <= warn no record at all.
C1_OneOutcomePerFile ==
    \A p \in Slots : handled[p] > 0 =>
        LET s == fs0[p].size
            e == Count(issues, "ERROR", p)
            w == Count(issues, "WARNING", p)
        IN /\ handled[p] = 1
           /\ (s > MAX_FILESIZE_MB) => (e = 1 /\ w = 0)
           /\ (WARNING_FILESIZE_MB < s /\ s <= MAX_FILESIZE_MB) => (e = 0 /\ w = 1)
           /\ (s <= WARNING_FILESIZE_MB) => (e = 0 /\ w = 0)

C1_Witness ==
    /\ \E p \in Files : handled[p] > 0 /\ fs0[p].size > MAX_FILESIZE_MB
    /\ \E p \in Files : handled[p] > 0 /\ fs0[p].size > WARNING_FILESIZE_MB
                        /\ fs0[p].size <= MAX_FILESIZE_MB
    /\ \E p \in Files : handled[p] > 0 /\ fs0[p].size <= WARNING_FILESIZE_MB

\* C2 as stated: a handled file of exactly the max size is an ERROR (a
\* violation), one of exactly the warning size gets no record.
C2_Original ==
    \A p \in Files : handled[p] > 0 =>
        /\ (fs0[p].size = MAX_FILESIZE_MB) => Count(issues, "ERROR", p) = 1
        /\ (fs0[p].size = WARNING_FILESIZE_MB) =>
               (Count(issues, "ERROR", p) = 0 /\ Count(issues, "WARNING", p) = 0)

\* C2 amended: a handled file of exactly the max size is a WARNING, not an
\* ERROR, and is never relocated; one of exactly the warning size gets no
\* record.
C2_BoundariesAreStrict ==
    \A p \in Files : handled[p] > 0 =>
        /\ (fs0[p].size = MAX_FILESIZE_MB) =>
               /\ Count(issues, "WARNING", p) = 1
               /\ Count(issues, "ERROR", p) = 0
               /\ (pc \in RelocSteps => cur # p)
               /\ fs[p] = fs0[p]
        /\ (fs0[p].size = WARNING_FILESIZE_MB) =>
               (Count(issues, "ERROR", p) = 0 /\ Count(issues, "WARNING", p) = 0)

C2_Witness ==
    /\ auto_move
    /\ pc = "done"
    /\ \E p \in Files : handled[p] > 0 /\ fs0[p].size = MAX_FILESIZE_MB
    /\ \E p \in Files : handled[p] > 0 /\ fs0[p].size = WARNING_FILESIZE_MB

\* C3 as stated: once check_dir_file_counts has run, every directory of the
\* tree, the root included, with more than MAX_FILES_PER_DIR immediate
\* children has exactly one DIR_WARNING record, every other directory none.
C3_EveryDirectoryCounted ==
    pc \in {"size", "done"} =>
        \A d \in Dirs :
            Count(issues, "DIR_WARNING", d)
                = IF GlobCount(fs, d) > MAX_FILES_PER_DIR THEN 1 ELSE 0

\* C4: after a successful relocation of a file (its MOVED record is in the
\* ledger) the original path is a link to the backup destination, the
\* content read through it is the file's content before the move, and the
\* access and modify times of the backup file and of the link itself are
\* those of the file before the move.
C4_RelocationRoundTrip ==
    \A p \in Files : Count(issues, "MOVED", p) > 0 =>
        /\ fs[p].kind = "link"
        /\ fs[p].target = "bk"
        /\ bk[p].kind = "file"
        /\ Stat(fs, bk, p).data = fs0[p].data
        /\ Stat(fs, bk, p).size = fs0[p].size
        /\ bk[p].atime = fs0[p].atime /\ bk[p].mtime = fs0[p].mtime
        /\ fs[p].atime = fs0[p].atime /\ fs[p].mtime = fs0[p].mtime

C4_Witness ==
    /\ pc = "done"
    /\ \E p \in Files : Count(issues, "MOVED", p) = 1 /\ fs0[p].kind = "file"

\* C5 as stated: when the link step failed after the move, at the end of
\* the run the file is only at the backup destination, and the run returned
\* a summary holding exactly one RELOCATION_FAILED record for the file.
C5_LinkFailureInSummary ==
    \A p \in Files : (Terminal /\ failStep[p] = "symlink") =>
        /\ fs[p].kind = "absent"
        /\ bk[p].kind = "file"
        /\ pc = "done"
        /\ Count(issues, "RELOCATION_FAILED", p) = 1

\* C6 as stated: a run in which a relocation failed still returns its
\* summary, after handling every regular file of the tree and running the
\* directory-count and tree-size checks.
C6_RunSurvivesRelocationFailure ==
    (Terminal /\ ~NoFailure) =>
        /\ pc = "done"
        /\ \A p \in RegularAtStart : handled[p] > 0


IssueSet(iss) == {iss[i] : i \in 1..Len(iss)}

C8_EveryFileScannedOnce ==
    (pc = "done" /\ NoFailure) =>
        /\ \A p \in Slots : handled[p] = IF fs0[p].kind = "file" THEN 1 ELSE 0
        /\ (ver = 3) => total_files = SumN(fs0, RegularAtStart)

HasContentOf(rec, p) ==
    rec.kind = "file" /\ rec.data = fs0[p].data /\ rec.size = fs0[p].size

RECURSIVE SumSizes(_, _)
SumSizes(f, S) ==
    IF S = {} THEN 0
    ELSE LET p == CHOOSE x \in S : TRUE IN f[p].size * f[p].n + SumSizes(f, S \ {p})

\* C10 as stated: every audit run ends with the tree-size check done: with
\* total the size of the regular non-symlink files of the tree, there is a
\* REPO_ERROR record iff total > max, a REPO_WARNING record and no error iff
\* warn < total <= max, and neither otherwise.
C10_TreeSizeAlwaysChecked ==
    Terminal =>
        LET total == SumSizes(fs, {p \in Slots : fs[p].kind = "file"}) IN
        /\ pc = "done"
        /\ total_size_mb = total
        /\ Count(issues, "REPO_ERROR", Root)
             = IF total > MAX_REPO_SIZE_GB * MiBPerGiB THEN 1 ELSE 0
        /\ Count(issues, "REPO_WARNING", Root)
             = IF total > WARNING_REPO_SIZE_GB * MiBPerGiB
                  /\ total <= MAX_REPO_SIZE_GB * MiBPerGiB THEN 1 ELSE 0

====
